---- MODULE Spec2Model ----
(***************************************************************************)
(* Model of Magnum::Shaders::FlatShader<dimensions>::FlatShader(), the     *)
(* constructor in src/Shaders/FlatShader.cpp, and of the two uniform       *)
(* setters that use the locations the constructor resolves.                *)
(*                                                                         *)
(* The constructor is a straight-line sequence of calls; pc is its         *)
(* position.  Every call that reaches the GL object model or the context   *)
(* is appended to log, so ordering and counting properties are state       *)
(* predicates over log.                                                    *)
(***************************************************************************)
EXTENDS Integers, Sequences, FiniteSets, TLC

VARIABLES family, dimensions, supported, extensions, pc, v, live,
          stageVersion, sources, compiled, attached, linked,
          transformationProjectionMatrixUniform, colorUniform, error, log,
          uniformValues, setterCalls

vars == <<family, dimensions, supported, extensions, pc, v, live,
          stageVersion, sources, compiled, attached, linked,
          transformationProjectionMatrixUniform, colorUniform, error, log,
          uniformValues, setterCalls>>

(* ---------------------------- bounds ----------------------------------- *)

\* Largest location the driver hands out from uniformLocation(); -1 is
\* "not found".
MaxLocation == 2

\* Largest payload written by a setter.
MaxValue == 1

\* Number of setter calls made on a constructed shader.
MaxSetterCalls == 2

(* ------------------------ static structure ----------------------------- *)

Families == {"desktop", "gles"}

Dimensions == {2, 3}

Stages == {"Vertex", "Fragment"}

Modern(f) == IF f = "desktop" THEN "GL320" ELSE "GLES300"

Legacy(f) == IF f = "desktop" THEN "GL210" ELSE "GLES200"

CandidatesLegacyFirst(f) == <<Legacy(f), Modern(f)>>

\* The initializer list handed to supportedVersion(), newest first.
Candidates(f) == <<Modern(f), Legacy(f)>>

\* A context of some version supports every older version of its family.
SupportedSets(f) == {{}, {Legacy(f)}, {Legacy(f), Modern(f)}}

ExplicitAttribLocation == "ARB::explicit_attrib_location"

ExplicitUniformLocation == "ARB::explicit_uniform_location"

ExtensionSets == SUBSET {ExplicitAttribLocation, ExplicitUniformLocation}

Prelude == "compatibility.glsl"

\* ShaderName<dimensions>::vertex() / ::fragment()
ShaderName(dim, stage) ==
    IF dim = 2
    THEN (IF stage = "Vertex" THEN "FlatShader2D.vert" ELSE "FlatShader2D.frag")
    ELSE (IF stage = "Vertex" THEN "FlatShader3D.vert" ELSE "FlatShader3D.frag")

Locations == -1 .. MaxLocation

Values == 0 .. MaxValue

(* ---------------------- capability profile ----------------------------- *)

\* Context::supportedVersion(): the first candidate the context supports.
supportedVersion(candidates, sup) ==
    IF candidates[1] \in sup THEN candidates[1]
    ELSE IF candidates[2] \in sup THEN candidates[2]
    ELSE "None"

\* Context::isVersionSupported()
isVersionSupported(version, sup) == version \in sup

\* Context::isExtensionSupported<E>()
isExtensionSupported(ext, exts) == ext \in exts

(* ------------------------ the two decisions ---------------------------- *)

NeedsAttributeBindWrongExtension(f, sup, exts) ==
    IF f = "desktop"
    THEN ~isExtensionSupported(ExplicitUniformLocation, exts)
    ELSE ~isVersionSupported(Modern(f), sup)

NeedsAttributeBindNever(f, sup, exts) == FALSE

\* Condition of the if that guards bindAttributeLocation().
NeedsAttributeBind(f, sup, exts) ==
    IF f = "desktop"
    THEN ~isExtensionSupported(ExplicitAttribLocation, exts)
    ELSE ~isVersionSupported(Modern(f), sup)

NeedsUniformLookupAlways(f, sup, exts) == TRUE

NeedsUniformLookupVersionGated(f, sup, exts) ==
    IF f = "desktop"
    THEN ~isExtensionSupported(ExplicitUniformLocation, exts)
    ELSE ~isVersionSupported(Modern(f), sup)

\* Condition that guards the two uniformLocation() calls: an extension test
\* on the desktop build, an unconditional block on the embedded build.
NeedsUniformLookup(f, sup, exts) ==
    IF f = "desktop"
    THEN ~isExtensionSupported(ExplicitUniformLocation, exts)
    ELSE TRUE

(* ----------------------------- the log --------------------------------- *)

Ev(op, name, n) == [op |-> op, name |-> name, n |-> n]

\* bindAttributeLocation(Position::Location, "position"); the slot is the
\* fixed Position::Location of the shader class.
BindEvent == Ev("bindAttributeLocation", "position", 0)

AttributeDecisionQueriesDoubled(f) ==
    IF f = "desktop"
    THEN <<Ev("isExtensionSupported", ExplicitAttribLocation, 0),
           Ev("isExtensionSupported", ExplicitAttribLocation, 0)>>
    ELSE <<Ev("isVersionSupported", Modern(f), 0),
           Ev("isVersionSupported", Modern(f), 0)>>

\* The context query made at the attribute-binding decision point.
AttributeDecisionQueries(f) ==
    IF f = "desktop"
    THEN <<Ev("isExtensionSupported", ExplicitAttribLocation, 0)>>
    ELSE <<Ev("isVersionSupported", Modern(f), 0)>>

\* The context query made at the uniform-binding decision point (none on
\* the embedded build, where the block is unconditional).
UniformDecisionQueries(f) ==
    IF f = "desktop"
    THEN <<Ev("isExtensionSupported", ExplicitUniformLocation, 0)>>
    ELSE <<>>

ScopeLocalsLeakVertex(l) == l \ {"Vertex"}

\* The Shader locals destroyed when control leaves the constructor body.
ScopeLocals(l) == l

\* Destructors run in reverse order of construction.
ReleaseEvents(l) ==
    (IF "Fragment" \in l THEN <<Ev("release", "Fragment", 0)>> ELSE <<>>)
    \o (IF "Vertex" \in l THEN <<Ev("release", "Vertex", 0)>> ELSE <<>>)

(* --------------------- positions in the constructor -------------------- *)

StepAfterLinkBeforeBind(p) ==
    CASE p = "negotiate"     -> "vertCreate"
      [] p = "vertCreate"    -> "vertPrelude"
      [] p = "vertPrelude"   -> "vertSource"
      [] p = "vertSource"    -> "vertAttach"
      [] p = "vertAttach"    -> "fragCreate"
      [] p = "fragCreate"    -> "fragPrelude"
      [] p = "fragPrelude"   -> "fragSource"
      [] p = "fragSource"    -> "fragAttach"
      [] p = "fragAttach"    -> "link"
      [] p = "link"          -> "attribDecide"
      [] p = "attribDecide"  -> "uniformDecide"
      [] p = "uniformDecide" -> "uniformTPM"
      [] p = "uniformTPM"    -> "uniformColor"
      [] p = "uniformColor"  -> "scopeExit"
      [] p = "scopeExit"     -> "done"
      [] OTHER               -> p

\* Statement order of the constructor body.
StepAfter(p) ==
    CASE p = "negotiate"     -> "vertCreate"
      [] p = "vertCreate"    -> "vertPrelude"
      [] p = "vertPrelude"   -> "vertSource"
      [] p = "vertSource"    -> "vertAttach"
      [] p = "vertAttach"    -> "fragCreate"
      [] p = "fragCreate"    -> "fragPrelude"
      [] p = "fragPrelude"   -> "fragSource"
      [] p = "fragSource"    -> "fragAttach"
      [] p = "fragAttach"    -> "attribDecide"
      [] p = "attribDecide"  -> "link"
      [] p = "link"          -> "uniformDecide"
      [] p = "uniformDecide" -> "uniformTPM"
      [] p = "uniformTPM"    -> "uniformColor"
      [] p = "uniformColor"  -> "scopeExit"
      [] p = "scopeExit"     -> "done"
      [] OTHER               -> p

PropagateSwallowed(ok, next) == next

\* A failing call leaves the constructor: the body has no handler.
Propagate(ok, next) == IF ok THEN next ELSE "failed"

PcStage(p) ==
    IF p \in {"vertCreate", "vertPrelude", "vertSource", "vertAttach"}
    THEN "Vertex" ELSE "Fragment"

PcResourcePreludeLast(p, dim) ==
    IF p \in {"vertPrelude", "fragPrelude"}
    THEN ShaderName(dim, PcStage(p)) ELSE Prelude

\* The resource name passed to rs.get() by the addSource() call at p.
PcResource(p, dim) ==
    IF p \in {"vertPrelude", "fragPrelude"}
    THEN Prelude ELSE ShaderName(dim, PcStage(p))

\* The version argument of the Shader constructor.
StageVersion(f, negotiated) == negotiated

(* ------------------------------- Init ---------------------------------- *)

Init ==
    /\ family \in Families
    /\ dimensions \in Dimensions
    /\ supported \in SupportedSets(family)
    /\ extensions \in ExtensionSets
    /\ pc = "negotiate"
    /\ v = "None"
    /\ live = {}
    /\ stageVersion = [s \in Stages |-> "None"]
    /\ sources = [s \in Stages |-> <<>>]
    /\ compiled = [s \in Stages |-> <<>>]
    /\ attached = <<>>
    /\ linked = FALSE
    /\ transformationProjectionMatrixUniform = 0
    /\ colorUniform = 1
    /\ error = "None"
    /\ log = <<>>
    /\ uniformValues = [l \in 0 .. MaxLocation |-> 0]
    /\ setterCalls = 0

\* What leaving the constructor body does to the Shader locals.
LeaveScope(events) ==
    /\ live' = live \ ScopeLocals(live)
    /\ log' = log \o events \o ReleaseEvents(ScopeLocals(live))

(* ------------------------------ actions -------------------------------- *)

\* Version v = Context::current()->supportedVersion({modern, legacy});
Negotiate ==
    /\ pc = "negotiate"
    /\ LET r == supportedVersion(Candidates(family), supported)
           q == Ev("supportedVersion", Candidates(family)[1], 0)
       IN /\ pc' = Propagate(r # "None", StepAfter(pc))
          /\ IF r # "None"
             THEN /\ v' = r
                  /\ error' = error
                  /\ log' = Append(log, q)
                  /\ live' = live
             ELSE /\ v' = v
                  /\ error' = "UnsupportedCapability"
                  /\ LeaveScope(<<q>>)
    /\ UNCHANGED <<family, dimensions, supported, extensions, stageVersion,
                   sources, compiled, attached, linked,
                   transformationProjectionMatrixUniform, colorUniform,
                   uniformValues, setterCalls>>

\* Shader vertexShader(v, Shader::Type::Vertex); / fragmentShader likewise
CreateShader ==
    /\ pc \in {"vertCreate", "fragCreate"}
    /\ live' = live \cup {PcStage(pc)}
    /\ stageVersion' = [stageVersion EXCEPT
                          ![PcStage(pc)] = StageVersion(family, v)]
    /\ log' = Append(log, Ev("createShader", PcStage(pc), 0))
    /\ pc' = StepAfter(pc)
    /\ UNCHANGED <<family, dimensions, supported, extensions, v, sources,
                   compiled, attached, linked,
                   transformationProjectionMatrixUniform, colorUniform,
                   error, uniformValues, setterCalls>>

\* shader.addSource(rs.get(name));
AddSource ==
    /\ pc \in {"vertPrelude", "vertSource", "fragPrelude", "fragSource"}
    /\ \E found \in BOOLEAN :
        /\ pc' = Propagate(found, StepAfter(pc))
        /\ IF found
           THEN /\ sources' = [sources EXCEPT ![PcStage(pc)] =
                                Append(@, PcResource(pc, dimensions))]
                /\ error' = error
                /\ UNCHANGED <<live, log>>
           ELSE /\ sources' = sources
                /\ error' = "ResourceNotFound"
                /\ LeaveScope(<<>>)
    /\ UNCHANGED <<family, dimensions, supported, extensions, v,
                   stageVersion, compiled, attached, linked,
                   transformationProjectionMatrixUniform, colorUniform,
                   uniformValues, setterCalls>>

\* attachShader(shader): compiles the stage and attaches it to the program.
AttachShader ==
    /\ pc \in {"vertAttach", "fragAttach"}
    /\ \E ok \in BOOLEAN :
        /\ pc' = Propagate(ok, StepAfter(pc))
        /\ compiled' = [compiled EXCEPT ![PcStage(pc)] = sources[PcStage(pc)]]
        /\ IF ok
           THEN /\ attached' = Append(attached, PcStage(pc))
                /\ error' = error
                /\ live' = live
                /\ log' = log \o <<Ev("compile", PcStage(pc), 0),
                                   Ev("attach", PcStage(pc), 0)>>
           ELSE /\ attached' = attached
                /\ error' = "CompileError"
                /\ LeaveScope(<<Ev("compile", PcStage(pc), 0)>>)
    /\ UNCHANGED <<family, dimensions, supported, extensions, v,
                   stageVersion, sources, linked,
                   transformationProjectionMatrixUniform, colorUniform,
                   uniformValues, setterCalls>>

\* if(!<explicit attribute location>) bindAttributeLocation(...);
AttribDecide ==
    /\ pc = "attribDecide"
    /\ log' = log \o AttributeDecisionQueries(family)
                  \o (IF NeedsAttributeBind(family, supported, extensions)
                      THEN <<BindEvent>> ELSE <<>>)
    /\ pc' = StepAfter(pc)
    /\ UNCHANGED <<family, dimensions, supported, extensions, v, live,
                   stageVersion, sources, compiled, attached, linked,
                   transformationProjectionMatrixUniform, colorUniform,
                   error, uniformValues, setterCalls>>

\* link();
Link ==
    /\ pc = "link"
    /\ \E ok \in BOOLEAN :
        /\ pc' = Propagate(ok, StepAfter(pc))
        /\ linked' = ok
        /\ IF ok
           THEN /\ error' = error
                /\ live' = live
                /\ log' = Append(log, Ev("link", "", 0))
           ELSE /\ error' = "LinkError"
                /\ LeaveScope(<<Ev("link", "", 0)>>)
    /\ UNCHANGED <<family, dimensions, supported, extensions, v,
                   stageVersion, sources, compiled, attached,
                   transformationProjectionMatrixUniform, colorUniform,
                   uniformValues, setterCalls>>

\* if(!<explicit uniform location>) {   (desktop)   /   {   (embedded)
UniformDecide ==
    /\ pc = "uniformDecide"
    /\ log' = log \o UniformDecisionQueries(family)
    /\ pc' = IF NeedsUniformLookup(family, supported, extensions)
             THEN StepAfter(pc) ELSE "scopeExit"
    /\ UNCHANGED <<family, dimensions, supported, extensions, v, live,
                   stageVersion, sources, compiled, attached, linked,
                   transformationProjectionMatrixUniform, colorUniform,
                   error, uniformValues, setterCalls>>

\* transformationProjectionMatrixUniform = uniformLocation("transformationProjectionMatrix");
LookupTransformationProjectionMatrix ==
    /\ pc = "uniformTPM"
    /\ \E loc \in Locations :
        /\ transformationProjectionMatrixUniform' = loc
        /\ log' = Append(log, Ev("uniformLocation",
                                 "transformationProjectionMatrix", loc))
    /\ pc' = StepAfter(pc)
    /\ UNCHANGED <<family, dimensions, supported, extensions, v, live,
                   stageVersion, sources, compiled, attached, linked,
                   colorUniform, error, uniformValues, setterCalls>>

\* colorUniform = uniformLocation("color");
LookupColor ==
    /\ pc = "uniformColor"
    /\ \E loc \in Locations :
        /\ colorUniform' = loc
        /\ log' = Append(log, Ev("uniformLocation", "color", loc))
    /\ pc' = StepAfter(pc)
    /\ UNCHANGED <<family, dimensions, supported, extensions, v, live,
                   stageVersion, sources, compiled, attached, linked,
                   transformationProjectionMatrixUniform, error,
                   uniformValues, setterCalls>>

\* Closing brace of the constructor: fragmentShader and vertexShader are
\* destroyed.
ScopeExit ==
    /\ pc = "scopeExit"
    /\ LeaveScope(<<>>)
    /\ pc' = StepAfter(pc)
    /\ UNCHANGED <<family, dimensions, supported, extensions, v,
                   stageVersion, sources, compiled, attached, linked,
                   transformationProjectionMatrixUniform, colorUniform,
                   error, uniformValues, setterCalls>>

\* setUniform(location, value): writes the GPU-side value; location -1 is
\* ignored by the driver.
setUniform(values, location, value) ==
    IF location \in DOMAIN values
    THEN [values EXCEPT ![location] = value] ELSE values

\* setColor(color)
SetColor ==
    /\ pc = "done"
    /\ setterCalls < MaxSetterCalls
    /\ \E c \in Values :
        uniformValues' = setUniform(uniformValues, colorUniform, c)
    /\ log' = Append(log, Ev("setUniform", "color", colorUniform))
    /\ setterCalls' = setterCalls + 1
    /\ UNCHANGED <<family, dimensions, supported, extensions, pc, v, live,
                   stageVersion, sources, compiled, attached, linked,
                   transformationProjectionMatrixUniform, colorUniform,
                   error>>

\* setTransformationProjectionMatrix(matrix)
SetTransformationProjectionMatrix ==
    /\ pc = "done"
    /\ setterCalls < MaxSetterCalls
    /\ \E m \in Values :
        uniformValues' = setUniform(uniformValues,
                                    transformationProjectionMatrixUniform, m)
    /\ log' = Append(log, Ev("setUniform", "transformationProjectionMatrix",
                             transformationProjectionMatrixUniform))
    /\ setterCalls' = setterCalls + 1
    /\ UNCHANGED <<family, dimensions, supported, extensions, pc, v, live,
                   stageVersion, sources, compiled, attached, linked,
                   transformationProjectionMatrixUniform, colorUniform,
                   error>>

Next ==
    \/ Negotiate
    \/ CreateShader
    \/ AddSource
    \/ AttachShader
    \/ AttribDecide
    \/ Link
    \/ UniformDecide
    \/ LookupTransformationProjectionMatrix
    \/ LookupColor
    \/ ScopeExit
    \/ SetColor
    \/ SetTransformationProjectionMatrix

Spec == Init /\ [][Next]_vars

(* ------------------------- helpers over the log ------------------------ *)

\* Positions in log of the calls of one operation.
Idx(op) == {i \in 1 .. Len(log) : log[i].op = op}

IdxNamed(op, name) == {i \in Idx(op) : log[i].name = name}

Count(op) == Cardinality(Idx(op))

CountNamed(op, name) == Cardinality(IdxNamed(op, name))

\* Every call of a comes before every call of b.
Before(a, b) == \A i \in a : \A j \in b : i < j

TypeOK ==
    /\ family \in Families
    /\ dimensions \in Dimensions
    /\ pc \in {"negotiate", "vertCreate", "vertPrelude", "vertSource",
               "vertAttach", "fragCreate", "fragPrelude", "fragSource",
               "fragAttach", "attribDecide", "link", "uniformDecide",
               "uniformTPM", "uniformColor", "scopeExit", "done", "failed"}
    /\ live \subseteq Stages
    /\ transformationProjectionMatrixUniform \in Locations
    /\ colorUniform \in Locations
    /\ setterCalls \in 0 .. MaxSetterCalls

(* ------------------------------ claims --------------------------------- *)

FullModern ==
    /\ Modern(family) \in supported
    /\ ExplicitAttribLocation \in extensions
    /\ ExplicitUniformLocation \in extensions

LegacyProfile ==
    /\ supported = {Legacy(family)}
    /\ extensions = {}

AfterAttribDecision ==
    pc \in {"link", "uniformDecide", "uniformTPM", "uniformColor",
            "scopeExit", "done"}

AfterUniformDecision == pc \in {"scopeExit", "done"}

\* The value the n-th field of the single lookup of a uniform returned.
Returned(name) ==
    {log[i].n : i \in IdxNamed("uniformLocation", name)}

\* C1 as stated: with full modern support, on both families, a finished
\* construction has made no attribute bind and no uniform-location query
\* and leaves the locations at 0 and 1.
C1_Original ==
    (FullModern /\ pc = "done") =>
        /\ Count("bindAttributeLocation") = 0
        /\ Count("uniformLocation") = 0
        /\ transformationProjectionMatrixUniform = 0
        /\ colorUniform = 1

\* C1 amended: with full modern support a finished construction has made
\* no attribute bind on either family; on the desktop build it has made no
\* uniform-location query and the locations are 0 and 1; on the embedded
\* build it has queried each of the two uniforms once and the locations are
\* the values returned.
C1_Amended ==
    (FullModern /\ pc = "done") =>
        /\ Count("bindAttributeLocation") = 0
        /\ family = "desktop" =>
              /\ Count("uniformLocation") = 0
              /\ transformationProjectionMatrixUniform = 0
              /\ colorUniform = 1
        /\ family = "gles" =>
              /\ Count("uniformLocation") = 2
              /\ Returned("transformationProjectionMatrix")
                    = {transformationProjectionMatrixUniform}
              /\ Returned("color") = {colorUniform}

C1_Witness ==
    /\ FullModern
    /\ pc = "done"
    /\ family = "gles"
    /\ dimensions = 3
    /\ Count("bindAttributeLocation") = 0
    /\ Count("uniformLocation") = 2

\* C2 as stated: once past the uniform decision, the two locations have
\* been queried iff the explicit-uniform-location extension is absent
\* (desktop) or the negotiated version is not the modern one (embedded);
\* otherwise no query was made and the locations are 0 and 1.
C2_Original ==
    AfterUniformDecision =>
        LET lookup == \/ family = "desktop"
                         /\ ExplicitUniformLocation \notin extensions
                      \/ family = "gles" /\ v # Modern(family)
        IN /\ lookup => Count("uniformLocation") = 2
           /\ ~lookup => /\ Count("uniformLocation") = 0
                         /\ transformationProjectionMatrixUniform = 0
                         /\ colorUniform = 1

\* C2 amended: once past the uniform decision, the two locations have been
\* queried by name (once each, after link) iff the build is the embedded
\* one, whatever version was negotiated, or the build is the desktop one
\* and the explicit-uniform-location extension is absent; otherwise no
\* query was made and the locations are 0 and 1.
C2_Amended ==
    /\ Before(Idx("link"), Idx("uniformLocation"))
    /\ Count("uniformLocation") > 0 => Count("link") = 1
    /\ AfterUniformDecision =>
        LET lookup == \/ family = "desktop"
                         /\ ExplicitUniformLocation \notin extensions
                      \/ family = "gles"
        IN /\ lookup =>
                /\ CountNamed("uniformLocation",
                              "transformationProjectionMatrix") = 1
                /\ CountNamed("uniformLocation", "color") = 1
                /\ Count("uniformLocation") = 2
           /\ ~lookup => /\ Count("uniformLocation") = 0
                         /\ transformationProjectionMatrixUniform = 0
                         /\ colorUniform = 1

C2_Witness ==
    /\ pc = "scopeExit"
    /\ family = "gles"
    /\ v = Modern(family)
    /\ Count("uniformLocation") = 2
    /\ colorUniform # 1

\* C3: the constructor binds the position attribute exactly once, before
\* link, iff the explicit-attribute-location extension is absent (desktop)
\* or the negotiated version is not the modern one (embedded); otherwise it
\* never binds.  On the embedded build isVersionSupported(modern) agrees
\* with the negotiated version.
C3_AttributeBinding ==
    /\ Count("bindAttributeLocation") <= 1
    /\ \A i \in Idx("bindAttributeLocation") : log[i] = BindEvent
    /\ Before(Idx("bindAttributeLocation"), Idx("link"))
    /\ (family = "gles" /\ v # "None") =>
          (isVersionSupported(Modern(family), supported)
              <=> v = Modern(family))
    /\ (AfterAttribDecision \/ error = "LinkError") =>
          LET bind == \/ family = "desktop"
                         /\ ExplicitAttribLocation \notin extensions
                      \/ family = "gles" /\ v # Modern(family)
          IN Count("bindAttributeLocation") = (IF bind THEN 1 ELSE 0)

C3_Witness ==
    /\ pc = "link"
    /\ family = "desktop"
    /\ v = Modern(family)
    /\ ExplicitUniformLocation \in extensions
    /\ Count("bindAttributeLocation") = 1

\* C4 as stated: the vertex handle is released before the fragment stage is
\* created, both handles are released before link, and none is live once
\* the constructor has finished or failed.
C4_Original ==
    /\ pc \in {"fragCreate", "fragPrelude", "fragSource", "fragAttach"}
          => "Vertex" \notin live
    /\ pc \in {"attribDecide", "link"} => live = {}
    /\ pc \in {"done", "failed"} => live = {}

\* C4 amended: each stage handle stays live from its creation until control
\* leaves the constructor body, and is released exactly then, on every exit
\* path (resource, compile or link failure, success); no stage handle is
\* live once the constructor has finished or failed.
C4_Amended ==
    /\ pc \in {"done", "failed"} =>
          /\ live = {}
          /\ \A s \in Stages :
                CountNamed("release", s) = CountNamed("createShader", s)
    /\ pc \notin {"done", "failed"} =>
          /\ Count("release") = 0
          /\ live = {s \in Stages : CountNamed("createShader", s) = 1}

C4_Witness ==
    /\ pc = "failed"
    /\ error = "LinkError"
    /\ live = {}
    /\ Count("release") = 2

C5_State ==
    /\ error # "None" <=> pc = "failed"
    /\ pc = "done" => error = "None" /\ linked
    /\ error \in {"UnsupportedCapability", "ResourceNotFound"} =>
          Count("compile") = Count("attach")
    /\ error = "CompileError" => Count("compile") = Count("attach") + 1
    /\ error \in {"UnsupportedCapability", "ResourceNotFound",
                  "CompileError"} =>
          /\ Count("bindAttributeLocation") = 0
          /\ Count("link") = 0
    /\ error # "None" =>
          /\ Count("uniformLocation") = 0
          /\ Count("setUniform") = 0
          /\ ~linked

\* C5: a failing step ends construction: the constructor is then in its
\* failed state, no later step (attach, attribute bind, link, uniform
\* lookup, setter) has run or ever runs, and Ready is never reached.
C5_FailureTerminal == [][pc # "failed" /\ C5_State']_vars

C5_Witness ==
    /\ pc = "failed"
    /\ error = "CompileError"
    /\ attached = <<"Vertex">>
    /\ Count("compile") = 2

\* C6: supportedVersion is called once, with the family's [modern, legacy]
\* list; the negotiated version is modern if modern is supported, legacy if
\* only legacy is; if neither is, construction fails with
\* UnsupportedCapability before any stage is created or compiled; both
\* stages are created with the negotiated version.
C6_Negotiation ==
    /\ Count("supportedVersion") <= 1
    /\ \A i \in Idx("supportedVersion") : log[i].name = Modern(family)
    /\ pc # "negotiate" =>
          /\ Count("supportedVersion") = 1
          /\ Modern(family) \in supported => v = Modern(family)
          /\ supported = {Legacy(family)} => v = Legacy(family)
          /\ supported = {} =>
                /\ pc = "failed"
                /\ error = "UnsupportedCapability"
                /\ Count("createShader") = 0
                /\ Count("compile") = 0
    /\ \A s \in Stages :
          /\ s \in live => stageVersion[s] = v /\ v # "None"
          /\ CountNamed("compile", s) > 0 => stageVersion[s] = v

C6_Witness ==
    /\ supported = {Legacy(family)}
    /\ v = Legacy(family)
    /\ Count("compile") = 2
    /\ stageVersion = [s \in Stages |-> Legacy(family)]

ExpectedSources(dim, stage) ==
    IF dim = 2 /\ stage = "Vertex"
    THEN <<"compatibility.glsl", "FlatShader2D.vert">>
    ELSE IF dim = 2 /\ stage = "Fragment"
    THEN <<"compatibility.glsl", "FlatShader2D.frag">>
    ELSE IF dim = 3 /\ stage = "Vertex"
    THEN <<"compatibility.glsl", "FlatShader3D.vert">>
    ELSE <<"compatibility.glsl", "FlatShader3D.frag">>

\* C7: every stage is compiled from exactly two sources, the compatibility
\* prelude first and then the resource named for its variant and stage; at
\* every moment a stage's source list is a prefix of that list.
C7_SourceOrder ==
    \A s \in Stages :
        /\ Len(sources[s]) <= 2
        /\ sources[s] = SubSeq(ExpectedSources(dimensions, s), 1,
                               Len(sources[s]))
        /\ CountNamed("compile", s) > 0 =>
              compiled[s] = ExpectedSources(dimensions, s)

C7_Witness ==
    /\ dimensions = 3
    /\ CountNamed("compile", "Fragment") = 1
    /\ compiled["Fragment"] = <<"compatibility.glsl", "FlatShader3D.frag">>
    /\ compiled["Vertex"] = <<"compatibility.glsl", "FlatShader3D.vert">>

\* C8: under the legacy profile (legacy version only, neither extension)
\* construction binds "position" exactly once before link, queries
\* "transformationProjectionMatrix" and "color" exactly once each after
\* link, stores the two results as the cached locations, and no setter call
\* afterwards makes a further query; each setter writes at the cached
\* location.
C8_LegacyPath ==
    LegacyProfile =>
        /\ AfterAttribDecision =>
              /\ Count("bindAttributeLocation") = 1
              /\ \A i \in Idx("bindAttributeLocation") : log[i] = BindEvent
              /\ Before(Idx("bindAttributeLocation"), Idx("link"))
        /\ AfterUniformDecision =>
              /\ Count("uniformLocation") = 2
              /\ Before(Idx("link"), Idx("uniformLocation"))
              /\ Returned("transformationProjectionMatrix")
                    = {transformationProjectionMatrixUniform}
              /\ Returned("color") = {colorUniform}
              /\ CountNamed("uniformLocation",
                            "transformationProjectionMatrix") = 1
              /\ CountNamed("uniformLocation", "color") = 1
        /\ Before(Idx("uniformLocation"), Idx("setUniform"))
        /\ \A i \in IdxNamed("setUniform", "color") :
              log[i].n = colorUniform
        /\ \A i \in IdxNamed("setUniform", "transformationProjectionMatrix") :
              log[i].n = transformationProjectionMatrixUniform

C8_Witness ==
    /\ LegacyProfile
    /\ pc = "done"
    /\ setterCalls = 2
    /\ CountNamed("setUniform", "color") = 2
    /\ Count("uniformLocation") = 2
    /\ Count("bindAttributeLocation") = 1

\* C9: the vertex stage is compiled and attached before the fragment stage
\* is compiled; both stages are attached before an attribute bind; a bind
\* precedes link; link is called at most once and exactly once before
\* Ready; uniform lookups follow link; no step is repeated.
C9_Ordering ==
    /\ \A s \in Stages :
          /\ CountNamed("createShader", s) <= 1
          /\ CountNamed("compile", s) <= 1
          /\ CountNamed("attach", s) <= 1
          /\ Before(IdxNamed("createShader", s), IdxNamed("compile", s))
          /\ Before(IdxNamed("compile", s), IdxNamed("attach", s))
    /\ Before(Idx("supportedVersion"), Idx("createShader"))
    /\ Before(IdxNamed("attach", "Vertex"), IdxNamed("createShader", "Fragment"))
    /\ Before(IdxNamed("compile", "Vertex"), IdxNamed("compile", "Fragment"))
    /\ Count("compile") > 0 => CountNamed("compile", "Vertex") = 1
    /\ Count("bindAttributeLocation") <= 1
    /\ Count("bindAttributeLocation") = 1 => Count("attach") = 2
    /\ Before(Idx("attach"), Idx("bindAttributeLocation"))
    /\ Before(Idx("bindAttributeLocation"), Idx("link"))
    /\ Count("link") <= 1
    /\ Count("link") = 1 => Count("attach") = 2
    /\ Before(Idx("link"), Idx("uniformLocation"))
    /\ Count("uniformLocation") > 0 => Count("link") = 1 /\ linked
    /\ CountNamed("uniformLocation", "transformationProjectionMatrix") <= 1
    /\ CountNamed("uniformLocation", "color") <= 1
    /\ Before(IdxNamed("uniformLocation", "transformationProjectionMatrix"),
              IdxNamed("uniformLocation", "color"))
    /\ pc = "done" =>
          /\ attached = <<"Vertex", "Fragment">>
          /\ Count("link") = 1
          /\ linked
          /\ Count("uniformLocation") \in {0, 2}
    /\ Before(Idx("link"), Idx("setUniform"))

C9_Witness ==
    /\ pc = "done"
    /\ dimensions = 2
    /\ Count("bindAttributeLocation") = 1
    /\ Count("uniformLocation") = 2
    /\ Count("setUniform") = 2

C10_Counts ==
    /\ Count("supportedVersion") <= 1
    /\ CountNamed("isExtensionSupported", ExplicitAttribLocation)
          + Count("isVersionSupported") <= 1
    /\ CountNamed("isExtensionSupported", ExplicitUniformLocation) <= 1
    /\ CountNamed("uniformLocation", "transformationProjectionMatrix") <= 1
    /\ CountNamed("uniformLocation", "color") <= 1

\* C10: no step changes the capability profile, the build family or the
\* variant; each decision point queries the profile at most once; a cached
\* location changes only in the step that looks it up by name, which
\* happens at most once per uniform; setters never change a location.
C10_Frame ==
    [][ /\ supported' = supported
        /\ extensions' = extensions
        /\ family' = family
        /\ dimensions' = dimensions
        /\ C10_Counts'
        /\ transformationProjectionMatrixUniform'
              # transformationProjectionMatrixUniform
           => /\ pc = "uniformTPM"
              /\ Count("uniformLocation") = 0
        /\ colorUniform' # colorUniform
           => /\ pc = "uniformColor"
              /\ CountNamed("uniformLocation", "color") = 0
        /\ pc = "done" =>
              /\ transformationProjectionMatrixUniform'
                    = transformationProjectionMatrixUniform
              /\ colorUniform' = colorUniform
      ]_vars

C10_Witness ==
    /\ pc = "done"
    /\ setterCalls = 2
    /\ Count("uniformLocation") = 2
    /\ colorUniform = 0
    /\ transformationProjectionMatrixUniform = 2
    /\ uniformValues[0] = 1

====
